---------------------------- MODULE Spec2Model ----------------------------
(***************************************************************************)
(* String Analyzer API (Express + better-sqlite3).                         *)
(*                                                                         *)
(* The repository holds two variants of the server, src/index.js and       *)
(* src/unnamed/part_000.  Both are modelled; the variable `variant` says   *)
(* which one is running.  They differ in the natural-language interpreter  *)
(* and in the contains_character test of applyFilters.                     *)
(*                                                                         *)
(* A JavaScript string is a sequence of one-character strings.             *)
(***************************************************************************)
EXTENDS Integers, Sequences, FiniteSets, TLC

VARIABLES
    variant,    \* which source file is running
    store,      \* rows of the table `strings` of data.db
    now,        \* the wall clock read by new Date()
    req,        \* the last HTTP request received
    resp,       \* the response sent to it
    pc,         \* per server process: where its POST handler stands
    local,      \* per server process: the locals of its POST handler
    call,       \* a direct call of one of the pure helpers
    ret         \* what that call returned

vars == <<variant, store, now, req, resp, pc, local, call, ret>>

(***************************************************************************)
(* Bounds of the model.                                                    *)
(***************************************************************************)
MaxLen == 3          \* longest string given to computeProperties directly
MaxRecords == 2      \* most rows the table holds
MaxClock == 1        \* last instant of the clock
MaxFrags == 3        \* most fragments a natural-language query is built from

Variants == {"index.js", "part_000"}

(***************************************************************************)
(* JavaScript values: undefined, numbers (NaN among them), booleans and    *)
(* strings, each tagged with its type.                                     *)
(***************************************************************************)
Undefined == [t |-> "undefined"]
NaN == [t |-> "NaN"]
Num(n) == [t |-> "number", n |-> n]
Str(s) == [t |-> "string", s |-> s]
Bool(b) == [t |-> "boolean", b |-> b]

(***************************************************************************)
(* Characters.                                                             *)
(***************************************************************************)
Upper == <<"A","B","C","D","E","F","G","H","I","J","K","L","M",
           "N","O","P","Q","R","S","T","U","V","W","X","Y","Z">>
Lower == <<"a","b","c","d","e","f","g","h","i","j","k","l","m",
           "n","o","p","q","r","s","t","u","v","w","x","y","z">>
Digits == <<"0","1","2","3","4","5","6","7","8","9">>

\* the printable ASCII characters, Ascii[b - 31] being the character of byte b
\* (the grave accent, which the lexer does not read in a string, is spelled out)
Ascii == <<" ","!","\"","#","$","%","&","'","(",")","*","+",",","-",".","/",
           "0","1","2","3","4","5","6","7","8","9",":",";","<","=",">","?",
           "@","A","B","C","D","E","F","G","H","I","J","K","L","M","N","O",
           "P","Q","R","S","T","U","V","W","X","Y","Z","[","\\","]","^","_",
           "grave","a","b","c","d","e","f","g","h","i","j","k","l","m","n","o",
           "p","q","r","s","t","u","v","w","x","y","z","{","|","}","~">>

Range(s) == {s[i] : i \in 1..Len(s)}

IndexOf(c, tab) == CHOOSE i \in 1..Len(tab) : tab[i] = c

UpperChars == Range(Upper)
LowerChars == Range(Lower)
DigitChars == Range(Digits)

IsUpper(c) == c \in UpperChars
IsLower(c) == c \in LowerChars
IsDigit(c) == c \in DigitChars
\* \w of a JavaScript regular expression
IsWordChar(c) == IsUpper(c) \/ IsLower(c) \/ IsDigit(c) \/ c = "_"
\* \s and String.prototype.trim, over the ASCII characters
IsSpace(c) == c \in {" ", "\t", "\n", "\r"}

DigitVal(c) == IndexOf(c, Digits) - 1

\* String.prototype.toLowerCase
LowerChar(c) == IF IsUpper(c) THEN Lower[IndexOf(c, Upper)] ELSE c
toLowerCase(s) == [i \in 1..Len(s) |-> LowerChar(s[i])]

\* split("").reverse().join("")
reverse(s) == [i \in 1..Len(s) |-> s[Len(s) + 1 - i]]

\* String.prototype.trim
RECURSIVE trimStart(_)
trimStart(s) == IF s # <<>> /\ IsSpace(Head(s)) THEN trimStart(Tail(s)) ELSE s
trim(s) == reverse(trimStart(reverse(trimStart(s))))

\* s.split(/\s+/): the pieces between the maximal runs of white space
RECURSIVE splitSpaces(_, _, _)
splitSpaces(s, cur, inRun) ==
    IF s = <<>> THEN <<cur>>
    ELSE IF IsSpace(Head(s))
         THEN IF inRun THEN splitSpaces(Tail(s), cur, TRUE)
              ELSE <<cur>> \o splitSpaces(Tail(s), <<>>, TRUE)
         ELSE splitSpaces(Tail(s), Append(cur, Head(s)), FALSE)

\* String.prototype.indexOf, 1-based; 0 when `needle` does not occur
indexOf(s, needle) ==
    LET starts == {i \in 1..(Len(s) - Len(needle) + 1) :
                      SubSeq(s, i, i + Len(needle) - 1) = needle}
    IN  IF starts = {} THEN 0 ELSE CHOOSE i \in starts : \A j \in starts : i <= j

\* String.prototype.includes
includes(s, needle) == indexOf(s, needle) # 0

\* crypto.createHash("sha256").update(value).digest("hex"): an injective
\* function of the value (no two values of the model collide)
sha256(value) == <<"sha256">> \o value

(***************************************************************************)
(* computeProperties                                                       *)
(***************************************************************************)
is_palindrome_nofold(value) == value = reverse(value)

is_palindrome_of(value) ==
    LET lower == toLowerCase(value)
    IN  lower = reverse(lower)

word_count_of(value) ==
    IF trim(value) = <<>> THEN 0 ELSE Len(splitSpaces(trim(value), <<>>, FALSE))

character_frequency_map_of(value) ==
    [ch \in Range(value) |-> Cardinality({i \in 1..Len(value) : value[i] = ch})]

computeProperties(value) ==
    [length |-> Len(value),
     is_palindrome |-> is_palindrome_of(value),
     unique_characters |-> Cardinality(Range(value)),
     word_count |-> word_count_of(value),
     sha256_hash |-> sha256(value),
     character_frequency_map |-> character_frequency_map_of(value)]

(***************************************************************************)
(* JavaScript conversions and comparisons                                  *)
(***************************************************************************)
\* the value of a string of decimal digits
RECURSIVE decimal(_)
decimal(ds) ==
    IF ds = <<>> THEN 0
    ELSE 10 * decimal(SubSeq(ds, 1, Len(ds) - 1)) + DigitVal(ds[Len(ds)])

\* Number(x).  Of a string: 0 when it is blank, its value when it is a run of
\* decimal digits, NaN otherwise (signs, fractions, exponents and radix
\* prefixes do not occur in the model's query strings).
Number(x) ==
    CASE x.t = "number" -> x
      [] x.t = "NaN" -> NaN
      [] x.t = "boolean" -> Num(IF x.b THEN 1 ELSE 0)
      [] x.t = "undefined" -> NaN
      [] x.t = "string" ->
            IF trim(x.s) = <<>> THEN Num(0)
            ELSE IF \A i \in 1..Len(trim(x.s)) : IsDigit(trim(x.s)[i])
                 THEN Num(decimal(trim(x.s)))
                 ELSE NaN

\* String(x) of a boolean
String(x) == IF x.b THEN <<"t","r","u","e">> ELSE <<"f","a","l","s","e">>

\* a < b and a > b of two numbers: false as soon as one is NaN
lessThan(a, b) == a.t = "number" /\ b.t = "number" /\ a.n < b.n
greaterThan(a, b) == a.t = "number" /\ b.t = "number" /\ a.n > b.n
\* a !== b of two numbers: NaN differs from everything
strictNotEqual(a, b) == ~(a.t = "number" /\ b.t = "number" /\ a.n = b.n)

\* if (x): the truthiness of a value
truthy(x) ==
    CASE x.t = "undefined" -> FALSE
      [] x.t = "NaN" -> FALSE
      [] x.t = "number" -> x.n # 0
      [] x.t = "boolean" -> x.b
      [] x.t = "string" -> x.s # <<>>

(***************************************************************************)
(* encodeURIComponent and decodeURIComponent                               *)
(***************************************************************************)
HexUpper == <<"0","1","2","3","4","5","6","7","8","9","A","B","C","D","E","F">>
HexLower == <<"0","1","2","3","4","5","6","7","8","9","a","b","c","d","e","f">>

HexChars == Range(HexUpper) \cup Range(HexLower)

IsHex(c) == c \in HexChars
HexVal(c) == IndexOf(LowerChar(c), HexLower) - 1

\* the characters encodeURIComponent leaves as they are
IsUnreserved(c) ==
    IsUpper(c) \/ IsLower(c) \/ IsDigit(c)
        \/ c \in {"-", "_", ".", "!", "~", "*", "'", "(", ")"}

ByteOf(c) == IndexOf(c, Ascii) + 31
\* the character of a byte below 0x80; a control character is named by its escape
CharOf(b) ==
    IF b \in 32..126 THEN Ascii[b - 31]
    ELSE "%" \o HexUpper[(b \div 16) + 1] \o HexUpper[(b % 16) + 1]

encodeChar(c) ==
    IF IsUnreserved(c) THEN <<c>>
    ELSE <<"%", HexUpper[(ByteOf(c) \div 16) + 1], HexUpper[(ByteOf(c) % 16) + 1]>>

RECURSIVE encodeURIComponent(_)
encodeURIComponent(s) ==
    IF s = <<>> THEN <<>> ELSE encodeChar(Head(s)) \o encodeURIComponent(Tail(s))

\* A "%" not followed by two hexadecimal digits, or an escaped byte that starts
\* no character, makes decodeURIComponent throw URIError.  The model's
\* characters are ASCII: an escaped byte of 0x80 or more is never part of a
\* well-formed multi-byte sequence here.
malformedURI(s) ==
    \E i \in 1..Len(s) :
        /\ s[i] = "%"
        /\ \/ i + 2 > Len(s)
           \/ ~IsHex(s[i + 1])
           \/ ~IsHex(s[i + 2])
           \/ 16 * HexVal(s[i + 1]) + HexVal(s[i + 2]) >= 128

RECURSIVE decodeChars(_)
decodeChars(s) ==
    IF s = <<>> THEN <<>>
    ELSE IF Head(s) = "%"
         THEN <<CharOf(16 * HexVal(s[2]) + HexVal(s[3]))>>
                  \o decodeChars(SubSeq(s, 4, Len(s)))
         ELSE <<Head(s)>> \o decodeChars(Tail(s))

\* decodeURIComponent(s): the decoded string, or the URIError thrown
decodeURIComponent(s) ==
    IF malformedURI(s) THEN [threw |-> TRUE, s |-> <<>>]
    ELSE [threw |-> FALSE, s |-> decodeChars(s)]

(***************************************************************************)
(* JSON.stringify and JSON.parse of a property set: the text is the list   *)
(* of the members in order, the frequency map as a list of members too.    *)
(***************************************************************************)
RECURSIVE membersOf(_, _)
membersOf(map, keys) ==
    IF keys = {} THEN <<>>
    ELSE LET k == CHOOSE k \in keys : TRUE
         IN  <<[key |-> k, val |-> map[k]]>> \o membersOf(map, keys \ {k})

JSONstringify(props) ==
    [m1 |-> <<"length", props.length>>,
     m2 |-> <<"is_palindrome", props.is_palindrome>>,
     m3 |-> <<"unique_characters", props.unique_characters>>,
     m4 |-> <<"word_count", props.word_count>>,
     m5 |-> <<"sha256_hash", props.sha256_hash>>,
     m6 |-> <<"character_frequency_map",
              membersOf(props.character_frequency_map,
                        DOMAIN props.character_frequency_map)>>]

JSONparse(text) ==
    LET members == text.m6[2]
    IN  [length |-> text.m1[2],
         is_palindrome |-> text.m2[2],
         unique_characters |-> text.m3[2],
         word_count |-> text.m4[2],
         sha256_hash |-> text.m5[2],
         character_frequency_map |->
             [ch \in {members[i].key : i \in 1..Len(members)} |->
                 LET i == CHOOSE i \in 1..Len(members) : members[i].key = ch
                 IN  members[i].val]]

(***************************************************************************)
(* The table `strings` of data.db: id is its PRIMARY KEY.                  *)
(***************************************************************************)
\* SELECT ... FROM strings WHERE id = ?
dbGet(rows, id) == {r \in rows : r.id = id}

\* INSERT INTO strings: SQLite refuses a second row with the same id, and
\* better-sqlite3 throws SQLITE_CONSTRAINT_PRIMARYKEY
dbInsert(rows, row) ==
    IF dbGet(rows, row.id) # {} THEN [threw |-> TRUE, rows |-> rows]
    ELSE [threw |-> FALSE, rows |-> rows \cup {row}]

\* DELETE FROM strings WHERE id = ?
dbDelete(rows, id) == {r \in rows : r.id # id}

\* SELECT * FROM strings ORDER BY created_at DESC: every order of the rows
\* that the ORDER BY allows (rows of the same instant come in either order)
dbAll(rows) ==
    {o \in [1..Cardinality(rows) -> rows] :
        /\ \A i, j \in DOMAIN o : i # j => o[i] # o[j]
        /\ \A i, j \in DOMAIN o : i < j => o[i].created_at >= o[j].created_at}

(***************************************************************************)
(* applyFilters                                                            *)
(***************************************************************************)
\* src/index.js: contains_character is looked up as it is given
keepRow_index(r, filters) ==
    LET p == JSONparse(r.properties)
        ch == filters.contains_character
    IN  /\ filters.is_palindrome # Undefined =>
               String(Bool(p.is_palindrome)) = String(filters.is_palindrome)
        /\ filters.min_length # Undefined =>
               ~lessThan(Num(p.length), Number(filters.min_length))
        /\ filters.max_length # Undefined =>
               ~greaterThan(Num(p.length), Number(filters.max_length))
        /\ filters.word_count # Undefined =>
               ~strictNotEqual(Num(p.word_count), Number(filters.word_count))
        /\ ch # Undefined =>
               /\ ch.t = "string" /\ ch.s # <<>>
               /\ includes(r.value, ch.s)

\* src/unnamed/part_000: both sides are lowercased
keepRow_part000(r, filters) ==
    LET p == JSONparse(r.properties)
        ch == filters.contains_character
    IN  /\ filters.is_palindrome # Undefined =>
               String(Bool(p.is_palindrome)) = String(filters.is_palindrome)
        /\ filters.min_length # Undefined =>
               ~lessThan(Num(p.length), Number(filters.min_length))
        /\ filters.max_length # Undefined =>
               ~greaterThan(Num(p.length), Number(filters.max_length))
        /\ filters.word_count # Undefined =>
               ~strictNotEqual(Num(p.word_count), Number(filters.word_count))
        /\ truthy(ch) =>
               includes(toLowerCase(r.value), toLowerCase(ch.s))

keepRow(v, r, filters) ==
    IF v = "index.js" THEN keepRow_index(r, filters) ELSE keepRow_part000(r, filters)

\* rows.filter(...): the rows kept, in the order they came in
applyFilters(v, rows, filters) == SelectSeq(rows, LAMBDA r : keepRow(v, r, filters))

(***************************************************************************)
(* The natural-language interpreter                                        *)
(***************************************************************************)
PALINDROME == <<"p","a","l","i","n","d","r","o","m","e">>
PALINDROMIC == <<"p","a","l","i","n","d","r","o","m","i","c">>
LONGER_THAN == <<"l","o","n","g","e","r"," ","t","h","a","n">>
SHORTER_THAN == <<"s","h","o","r","t","e","r"," ","t","h","a","n">>
SINGLE_WORD == <<"s","i","n","g","l","e"," ","w","o","r","d">>
CONTAINING_THE_LETTER ==
    <<"c","o","n","t","a","i","n","i","n","g"," ","t","h","e"," ",
      "l","e","t","t","e","r">>
CONTAINING_THE_FIRST_VOWEL ==
    <<"c","o","n","t","a","i","n","i","n","g"," ","t","h","e"," ",
      "f","i","r","s","t"," ","v","o","w","e","l">>

\* the longest run of decimal digits that s starts with
RECURSIVE leadingDigits(_)
leadingDigits(s) ==
    IF s # <<>> /\ IsDigit(Head(s)) THEN <<Head(s)>> \o leadingDigits(Tail(s))
    ELSE <<>>

\* s.match(/<phrase> (\d+)/)?.[1]: the digits captured at the leftmost place
\* where the phrase, a space and a digit follow one another; <<>> for no match
matchNumber(s, phrase) ==
    LET lit == phrase \o <<" ">>
        at == {i \in 1..(Len(s) - Len(lit)) :
                  /\ SubSeq(s, i, i + Len(lit) - 1) = lit
                  /\ IsDigit(s[i + Len(lit)])}
    IN  IF at = {} THEN <<>>
        ELSE LET i == CHOOSE i \in at : \A j \in at : i <= j
             IN  leadingDigits(SubSeq(s, i + Len(lit), Len(s)))

\* s.match(/<phrase> (\w)/)?.[1]: the word character captured, <<>> for no match
matchLetter(s, phrase) ==
    LET lit == phrase \o <<" ">>
        at == {i \in 1..(Len(s) - Len(lit)) :
                  /\ SubSeq(s, i, i + Len(lit) - 1) = lit
                  /\ IsWordChar(s[i + Len(lit)])}
    IN  IF at = {} THEN <<>>
        ELSE LET i == CHOOSE i \in at : \A j \in at : i <= j
             IN  <<s[i + Len(lit)]>>

\* parseInt of a run of decimal digits
parseInt(ds) == decimal(ds)

\* src/index.js: "palindromic" only, and no "shorter than"
interpret_index(query) ==
    LET lower == toLowerCase(query)
        longer == matchNumber(lower, LONGER_THAN)
        letter == matchLetter(lower, CONTAINING_THE_LETTER)
    IN  [is_palindrome |->
             IF includes(lower, PALINDROMIC) THEN Bool(TRUE) ELSE Undefined,
         min_length |->
             IF includes(lower, LONGER_THAN) /\ longer # <<>>
             THEN Num(parseInt(longer) + 1) ELSE Undefined,
         max_length |-> Undefined,
         word_count |->
             IF includes(lower, SINGLE_WORD) THEN Num(1) ELSE Undefined,
         contains_character |->
             IF includes(lower, CONTAINING_THE_FIRST_VOWEL) THEN Str(<<"a">>)
             ELSE IF includes(lower, CONTAINING_THE_LETTER) /\ letter # <<>>
                  THEN Str(letter) ELSE Undefined]

\* src/unnamed/part_000
interpret_part000(query) ==
    LET lower == toLowerCase(query)
        longerMatch == matchNumber(lower, LONGER_THAN)
        shorterMatch == matchNumber(lower, SHORTER_THAN)
        containsMatch == matchLetter(lower, CONTAINING_THE_LETTER)
    IN  [is_palindrome |->
             IF includes(lower, PALINDROME) \/ includes(lower, PALINDROMIC)
             THEN Bool(TRUE) ELSE Undefined,
         min_length |->
             IF longerMatch # <<>> THEN Num(parseInt(longerMatch) + 1) ELSE Undefined,
         max_length |->
             IF shorterMatch # <<>> THEN Num(parseInt(shorterMatch) - 1) ELSE Undefined,
         word_count |->
             IF includes(lower, SINGLE_WORD) THEN Num(1) ELSE Undefined,
         contains_character |->
             IF includes(lower, CONTAINING_THE_FIRST_VOWEL) THEN Str(<<"a">>)
             ELSE IF containsMatch # <<>> THEN Str(containsMatch) ELSE Undefined]

interpret(v, query) ==
    IF v = "index.js" THEN interpret_index(query) ELSE interpret_part000(query)

\* Object.keys(filters): the filters that were set
keys(filters) == {k \in DOMAIN filters : filters[k] # Undefined}

(***************************************************************************)
(* Requests, responses and the Express router                              *)
(***************************************************************************)
STRINGS == <<"/","s","t","r","i","n","g","s">>
FILTER_BY_NATURAL_LANGUAGE ==
    <<"f","i","l","t","e","r","-","b","y","-",
      "n","a","t","u","r","a","l","-","l","a","n","g","u","a","g","e">>

NoQuery ==
    [is_palindrome |-> Undefined, min_length |-> Undefined, max_length |-> Undefined,
     word_count |-> Undefined, contains_character |-> Undefined, query |-> Undefined]

Request(method, path, query, body) ==
    [method |-> method, path |-> path, query |-> query, body |-> body]

json(status, handler, body) == [status |-> status, handler |-> handler, body |-> body]

error(message) == [kind |-> "error", error |-> message]

\* the route handlers in the order app.post / app.get / app.delete register
\* them; `param` says that /:string_value follows the path
Routes ==
    <<[method |-> "POST", path |-> STRINGS, param |-> FALSE,
       handler |-> "postStrings"],
      [method |-> "GET", path |-> STRINGS, param |-> TRUE,
       handler |-> "getString"],
      [method |-> "GET", path |-> STRINGS, param |-> FALSE,
       handler |-> "getStrings"],
      [method |-> "DELETE", path |-> STRINGS, param |-> TRUE,
       handler |-> "deleteString"],
      [method |-> "GET", path |-> STRINGS \o <<"/">> \o FILTER_BY_NATURAL_LANGUAGE,
       param |-> FALSE, handler |-> "filterByNaturalLanguage"],
      [method |-> "GET", path |-> <<"/">>, param |-> FALSE,
       handler |-> "health"]>>

\* routing is not strict: one trailing slash is ignored
stripSlash(path) ==
    IF Len(path) > 1 /\ path[Len(path)] = "/" THEN SubSeq(path, 1, Len(path) - 1)
    ELSE path

\* the text that :string_value matches, as it stands in the URL
segment(path) == SubSeq(stripSlash(path), Len(STRINGS) + 2, Len(stripSlash(path)))

routeMatches(route, r) ==
    /\ route.method = r.method
    /\ IF route.param
       THEN LET p == stripSlash(r.path)
                pre == route.path \o <<"/">>
            IN  /\ Len(p) > Len(pre)
                /\ SubSeq(p, 1, Len(pre)) = pre
                /\ "/" \notin Range(SubSeq(p, Len(pre) + 1, Len(p)))
       ELSE stripSlash(r.path) = route.path

\* Express runs the first registered route that matches
handlerOf(r) ==
    LET hits == {i \in 1..Len(Routes) : routeMatches(Routes[i], r)}
    IN  IF hits = {} THEN "none"
        ELSE Routes[CHOOSE i \in hits : \A j \in hits : i <= j].handler

\* the global error handler
errorHandler == json(500, "errorHandler", error("internal_server_error"))

\* no route matched: the 404 of Express itself
finalHandler == json(404, "none", [kind |-> "html"])

\* the shape in which a row is sent
rowJson(row) ==
    [kind |-> "record", id |-> row.id, value |-> row.value,
     properties |-> JSONparse(row.properties), created_at |-> row.created_at]

(***************************************************************************)
(* The route handlers.  Each gives the rows it leaves in the table and the *)
(* response it sends.                                                      *)
(***************************************************************************)
\* the INSERT of app.post("/strings") and the 201 that follows it
postInsert(value, props, t, rows) ==
    LET id == props.sha256_hash
        ins == dbInsert(rows, [id |-> id, value |-> value,
                               properties |-> JSONstringify(props), created_at |-> t])
    IN  IF ins.threw THEN [rows |-> rows, resp |-> errorHandler]
        ELSE [rows |-> ins.rows,
              resp |-> json(201, "postStrings",
                            [kind |-> "record", id |-> id, value |-> value,
                             properties |-> props, created_at |-> t])]

\* an INSERT OR REPLACE in its place
postReplace(value, props, t, rows) ==
    LET id == props.sha256_hash
    IN  [rows |-> dbDelete(rows, id)
                    \cup {[id |-> id, value |-> value,
                           properties |-> JSONstringify(props), created_at |-> t]},
         resp |-> json(201, "postStrings",
                       [kind |-> "record", id |-> id, value |-> value,
                        properties |-> props, created_at |-> t])]

\* app.post("/strings") without its duplicate check
postStringsUnchecked(r, rows, t) ==
    LET value == r.body
    IN  IF value = Undefined
        THEN [rows |-> rows,
              resp |-> json(400, "postStrings", error("\"value\" field is required"))]
        ELSE IF value.t # "string"
        THEN [rows |-> rows,
              resp |-> json(422, "postStrings", error("\"value\" must be a string"))]
        ELSE postReplace(value.s, computeProperties(value.s), t, rows)

\* app.post("/strings") down to its duplicate check: the response when it
\* ends there, the value and its properties when the INSERT is to follow
postSelect(r, rows) ==
    LET value == r.body
    IN  IF value = Undefined
        THEN [done |-> TRUE,
              resp |-> json(400, "postStrings", error("\"value\" field is required"))]
        ELSE IF value.t # "string"
        THEN [done |-> TRUE,
              resp |-> json(422, "postStrings", error("\"value\" must be a string"))]
        ELSE LET props == computeProperties(value.s)
             IN  IF dbGet(rows, props.sha256_hash) # {}
                 THEN [done |-> TRUE,
                       resp |-> json(409, "postStrings",
                                     error("String already exists in the system"))]
                 ELSE [done |-> FALSE, value |-> value.s, props |-> props]

\* app.post("/strings")
postStrings(r, rows, t) ==
    LET sel == postSelect(r, rows)
    IN  IF sel.done THEN [rows |-> rows, resp |-> sel.resp]
        ELSE postInsert(sel.value, sel.props, t, rows)

\* app.get("/strings/:string_value").  Express has decoded the parameter
\* once (a parameter it cannot decode goes to the error handler); the
\* handler decodes it again.
getString(r, rows) ==
    LET raw == decodeURIComponent(segment(r.path))
    IN  IF raw.threw THEN [rows |-> rows, resp |-> errorHandler]
        ELSE IF raw.s = <<>>
        THEN [rows |-> rows,
              resp |-> json(400, "getString", error("missing string value param"))]
        ELSE LET value == decodeURIComponent(raw.s)
             IN  IF value.threw THEN [rows |-> rows, resp |-> errorHandler]
                 ELSE LET row == dbGet(rows, sha256(value.s))
                      IN  IF row = {}
                          THEN [rows |-> rows,
                                resp |-> json(404, "getString", error("String not found"))]
                          ELSE [rows |-> rows,
                                resp |-> json(200, "getString",
                                              rowJson(CHOOSE x \in row : TRUE))]

\* app.get("/strings"): allRows is the table in the order SQLite gave it
getStrings(v, r, rows, allRows) ==
    LET q == r.query
        filtered ==
            applyFilters(v, allRows,
                [is_palindrome |->
                     IF q.is_palindrome = Undefined THEN Undefined
                     ELSE Bool(q.is_palindrome = Str(<<"t","r","u","e">>)),
                 min_length |-> q.min_length,
                 max_length |-> q.max_length,
                 word_count |-> q.word_count,
                 contains_character |-> q.contains_character])
    IN  [rows |-> rows,
         resp |-> json(200, "getStrings",
                       [kind |-> "list",
                        data |-> [i \in 1..Len(filtered) |-> rowJson(filtered[i])],
                        count |-> Len(filtered)])]

\* app.delete("/strings/:string_value")
deleteString(r, rows) ==
    LET raw == decodeURIComponent(segment(r.path))
    IN  IF raw.threw THEN [rows |-> rows, resp |-> errorHandler]
        ELSE LET value == decodeURIComponent(raw.s)
             IN  IF value.threw THEN [rows |-> rows, resp |-> errorHandler]
                 ELSE IF dbGet(rows, sha256(value.s)) = {}
                 THEN [rows |-> rows,
                       resp |-> json(404, "deleteString",
                                     error("String does not exist in the system"))]
                 ELSE [rows |-> dbDelete(rows, sha256(value.s)),
                       resp |-> json(204, "deleteString", [kind |-> "empty"])]

\* app.get("/strings/filter-by-natural-language")
filterByNaturalLanguage(v, r, rows, allRows) ==
    LET query == r.query.query
    IN  IF ~truthy(query)
        THEN [rows |-> rows,
              resp |-> json(400, "filterByNaturalLanguage",
                            error("Missing 'query' parameter"))]
        ELSE LET filters == interpret(v, query.s)
                 filtered == applyFilters(v, allRows, filters)
             IN  IF keys(filters) = {}
                 THEN [rows |-> rows,
                       resp |-> json(400, "filterByNaturalLanguage",
                                     error("Unable to parse natural language query"))]
                 ELSE [rows |-> rows,
                       resp |-> json(200, "filterByNaturalLanguage",
                                     [kind |-> "interpreted",
                                      data |-> [i \in 1..Len(filtered) |->
                                                    rowJson(filtered[i])],
                                      count |-> Len(filtered),
                                      interpreted_query |->
                                          [original |-> query.s,
                                           parsed_filters |-> filters]])]

\* app.get("/")
health(rows) == [rows |-> rows, resp |-> json(200, "health", [kind |-> "status"])]

\* what the server does with request r
respond(v, r, rows, t, allRows) ==
    LET h == handlerOf(r)
    IN  CASE h = "postStrings" -> postStrings(r, rows, t)
          [] h = "getString" -> getString(r, rows)
          [] h = "getStrings" -> getStrings(v, r, rows, allRows)
          [] h = "deleteString" -> deleteString(r, rows)
          [] h = "filterByNaturalLanguage" -> filterByNaturalLanguage(v, r, rows, allRows)
          [] h = "health" -> health(rows)
          [] OTHER -> [rows |-> rows, resp |-> finalHandler]

(***************************************************************************)
(* The server: one process, each handler run to its end before the next    *)
(* request is taken (the handlers are synchronous, and so is               *)
(* better-sqlite3).                                                        *)
(***************************************************************************)
\* the values clients name
Values == {<<>>, <<"a">>, <<"/">>, <<"%">>, <<"%","2","5">>}

\* the bodies posted: no value, a number, a string
Bodies == {Undefined, Num(7)} \cup {Str(v) : v \in Values}

\* the query strings of GET /strings
NumericParams == {"min_length", "max_length", "word_count"}
ListQueries ==
    {NoQuery}
        \cup {[NoQuery EXCEPT ![k] = Str(<<"a","b","c">>)] : k \in NumericParams}
        \cup {[NoQuery EXCEPT !.min_length = Str(<<"1">>)],
               [NoQuery EXCEPT !.contains_character = Str(<<"a">>)],
               [NoQuery EXCEPT !.is_palindrome = Str(<<"t","r","u","e">>),
                               !.min_length = Str(<<"1">>)]}

\* the query parameter of GET /strings/filter-by-natural-language
SentQueries == {Undefined, Str(PALINDROMIC), Str(<<"x","y","z">>)}

\* /strings/<value, path-escaped>
valuePath(v) == STRINGS \o <<"/">> \o encodeURIComponent(v)

NoRequest == Request("none", <<>>, NoQuery, Undefined)
NoResponse == json(0, "none", [kind |-> "none"])
NoLocal == [value |-> <<>>, resp |-> NoResponse]
NoCall == [fn |-> "none"]
NoReturn == [returned |-> FALSE]
Procs == {1, 2}

Idle ==
    /\ pc = [p \in Procs |-> "idle"]
    /\ local = [p \in Procs |-> NoLocal]
    /\ call = NoCall
    /\ ret = NoReturn

Init ==
    /\ variant \in Variants
    /\ store = {}
    /\ now = 0
    /\ req = NoRequest
    /\ resp = NoResponse
    /\ Idle

\* The requests clients send.  A client that names a value path-escapes it.
PostRequests == {Request("POST", STRINGS, NoQuery, b) : b \in Bodies}
GetRequests == {Request("GET", valuePath(v), NoQuery, Undefined) : v \in Values}
ListRequests == {Request("GET", STRINGS, q, Undefined) : q \in ListQueries}
DeleteRequests == {Request("DELETE", valuePath(v), NoQuery, Undefined) : v \in Values}
NaturalLanguageRequests ==
    {Request("GET", STRINGS \o <<"/">> \o FILTER_BY_NATURAL_LANGUAGE,
             [NoQuery EXCEPT !.query = q], Undefined) : q \in SentQueries}
HealthRequest == Request("GET", <<"/">>, NoQuery, Undefined)

Tick ==
    /\ now < MaxClock
    /\ now' = now + 1
    /\ UNCHANGED <<variant, store, req, resp, pc, local, call, ret>>

\* In each action the server takes a request and answers it.
PostString ==
    \E r \in PostRequests :
        LET out == respond(variant, r, store, now, <<>>)
        IN  /\ Cardinality(out.rows) <= MaxRecords
            /\ store' = out.rows
            /\ req' = r
            /\ resp' = out.resp
            /\ UNCHANGED <<variant, now, pc, local, call, ret>>

GetByValue ==
    \E r \in GetRequests :
        LET out == respond(variant, r, store, now, <<>>)
        IN  /\ store' = out.rows
            /\ req' = r
            /\ resp' = out.resp
            /\ UNCHANGED <<variant, now, pc, local, call, ret>>

ListStrings ==
    \E r \in ListRequests, allRows \in dbAll(store) :
        LET out == respond(variant, r, store, now, allRows)
        IN  /\ store' = out.rows
            /\ req' = r
            /\ resp' = out.resp
            /\ UNCHANGED <<variant, now, pc, local, call, ret>>

DeleteByValue ==
    \E r \in DeleteRequests :
        LET out == respond(variant, r, store, now, <<>>)
        IN  /\ store' = out.rows
            /\ req' = r
            /\ resp' = out.resp
            /\ UNCHANGED <<variant, now, pc, local, call, ret>>

QueryNaturalLanguage ==
    \E r \in NaturalLanguageRequests, allRows \in dbAll(store) :
        LET out == respond(variant, r, store, now, allRows)
        IN  /\ store' = out.rows
            /\ req' = r
            /\ resp' = out.resp
            /\ UNCHANGED <<variant, now, pc, local, call, ret>>

Health ==
    LET out == respond(variant, HealthRequest, store, now, <<>>)
    IN  /\ store' = out.rows
        /\ req' = HealthRequest
        /\ resp' = out.resp
        /\ UNCHANGED <<variant, now, pc, local, call, ret>>

Next ==
    \/ Tick
    \/ PostString
    \/ GetByValue
    \/ ListStrings
    \/ DeleteByValue
    \/ QueryNaturalLanguage
    \/ Health

Spec == Init /\ [][Next]_vars

(***************************************************************************)
(* Two server processes opened on the same data.db.  Within one process a  *)
(* handler runs to its end; between two processes the SELECT of a POST and *)
(* its INSERT are two statements, and the other process may run between    *)
(* them.                                                                   *)
(***************************************************************************)
InitRace ==
    /\ variant \in Variants
    /\ store = {}
    /\ now = 0
    /\ req = NoRequest
    /\ resp = NoResponse
    /\ Idle

\* process p takes a POST and runs it down to the duplicate check
RaceSelect(p) ==
    /\ pc[p] = "idle"
    /\ \E r \in PostRequests :
           LET sel == postSelect(r, store)
           IN  IF sel.done
               THEN /\ pc' = [pc EXCEPT ![p] = "done"]
                    /\ local' = [local EXCEPT ![p] =
                                    [value |-> IF r.body.t = "string" THEN r.body.s
                                               ELSE <<>>,
                                     resp |-> sel.resp]]
               ELSE /\ pc' = [pc EXCEPT ![p] = "selected"]
                    /\ local' = [local EXCEPT ![p] =
                                    [value |-> sel.value, props |-> sel.props,
                                     now |-> now, resp |-> NoResponse]]
    /\ UNCHANGED <<variant, store, now, req, resp, call, ret>>

\* process p runs its INSERT and answers
RaceInsert(p) ==
    /\ pc[p] = "selected"
    /\ LET out == postInsert(local[p].value, local[p].props, local[p].now, store)
       IN  /\ Cardinality(out.rows) <= MaxRecords
           /\ store' = out.rows
           /\ local' = [local EXCEPT ![p] = [value |-> local[p].value,
                                             resp |-> out.resp]]
    /\ pc' = [pc EXCEPT ![p] = "done"]
    /\ UNCHANGED <<variant, now, req, resp, call, ret>>

\* process p is ready for its next request
RaceNext(p) ==
    /\ pc[p] = "done"
    /\ pc' = [pc EXCEPT ![p] = "idle"]
    /\ local' = [local EXCEPT ![p] = NoLocal]
    /\ UNCHANGED <<variant, store, now, req, resp, call, ret>>

NextRace ==
    \/ Tick
    \/ \E p \in Procs : RaceSelect(p)
    \/ \E p \in Procs : RaceInsert(p)
    \/ \E p \in Procs : RaceNext(p)

SpecRace == InitRace /\ [][NextRace]_vars

(***************************************************************************)
(* The helpers called directly, on every input up to a bound.              *)
(***************************************************************************)
Strings(chars, n) == UNION {[1..k -> chars] : k \in 0..n}

InitCall(calls) ==
    /\ variant \in Variants
    /\ store = {}
    /\ now = 0
    /\ req = NoRequest
    /\ resp = NoResponse
    /\ pc = [p \in Procs |-> "idle"]
    /\ local = [p \in Procs |-> NoLocal]
    /\ call \in calls
    /\ ret = NoReturn

Return(value) ==
    /\ ret = NoReturn
    /\ ret' = [returned |-> TRUE, value |-> value]
    /\ UNCHANGED <<variant, store, now, req, resp, pc, local, call>>

\* computeProperties(value)
AnalyzeChars == {"a", "A", "b", " ", "!"}

InitAnalyze ==
    InitCall({[fn |-> "computeProperties", value |-> s] :
                 s \in Strings(AnalyzeChars, MaxLen)})

Analyze ==
    /\ call.fn = "computeProperties"
    /\ Return(computeProperties(call.value))

SpecAnalyze == InitAnalyze /\ [][Analyze]_vars

\* the natural-language handler on an empty table
Fragments ==
    {PALINDROME, <<"P","a","l","i","n","d","r","o","m","i","c">>,
     LONGER_THAN \o <<" ">>, SHORTER_THAN \o <<" ">>, SINGLE_WORD,
     CONTAINING_THE_LETTER \o <<" ">>, CONTAINING_THE_FIRST_VOWEL,
     <<"5">>, <<"1","2">>, <<"Z">>, <<" ">>, <<"s","t","r","i","n","g","s">>}

RECURSIVE Concatenations(_)
Concatenations(n) ==
    IF n = 0 THEN {<<>>}
    ELSE LET shorter == Concatenations(n - 1)
         IN  shorter \cup {q \o f : q \in shorter, f \in Fragments}

InitInterpret ==
    InitCall({[fn |-> "filterByNaturalLanguage", query |-> q] :
                 q \in Concatenations(MaxFrags)})

Interpret ==
    /\ call.fn = "filterByNaturalLanguage"
    /\ Return(filterByNaturalLanguage(
                  variant,
                  Request("GET", STRINGS \o <<"/">> \o FILTER_BY_NATURAL_LANGUAGE,
                          [NoQuery EXCEPT !.query = Str(call.query)], Undefined),
                  {}, <<>>).resp)

SpecInterpret == InitInterpret /\ [][Interpret]_vars

\* applyFilters on one row
FilterChars == {"a", "A", " "}

FilterSets ==
    [is_palindrome : {Undefined, Bool(TRUE), Bool(FALSE)},
     min_length : {Undefined, Num(1), Num(2)},
     max_length : {Undefined, Num(1), Num(2)},
     word_count : {Undefined, Num(1), Num(2)},
     contains_character : {Undefined, Str(<<"a">>), Str(<<"A">>), Str(<<"a"," ">>)}]

rowOf(value, t) ==
    [id |-> sha256(value), value |-> value,
     properties |-> JSONstringify(computeProperties(value)), created_at |-> t]

InitFilter ==
    InitCall({[fn |-> "applyFilters", row |-> rowOf(s, 0), filters |-> f] :
                 s \in Strings(FilterChars, MaxLen), f \in FilterSets})

Filter ==
    /\ call.fn = "applyFilters"
    /\ Return(applyFilters(variant, <<call.row>>, call.filters))

SpecFilter == InitFilter /\ [][Filter]_vars

(***************************************************************************)
(* The claims.                                                             *)
(***************************************************************************)
\* the server answers request r in this step (only Tick moves the clock)
Answers(r) == req' = r /\ now' = now

Stored(rows, v) == \E row \in rows : row.value = v

PostOf(v) == Request("POST", STRINGS, NoQuery, Str(v))
GetOf(v) == Request("GET", valuePath(v), NoQuery, Undefined)
DeleteOf(v) == Request("DELETE", valuePath(v), NoQuery, Undefined)

NaturalLanguagePath == STRINGS \o <<"/">> \o FILTER_BY_NATURAL_LANGUAGE

\* C1: a GET of /strings/filter-by-natural-language is answered by the
\* natural-language handler, with 400 when the query is missing or no pattern
\* matches it and otherwise with 200 and interpreted_query {original,
\* parsed_filters}; no other route answers it.
C1_NaturalLanguageHandlerAnswers ==
    (req.method = "GET" /\ req.path = NaturalLanguagePath) =>
        /\ resp.handler = "filterByNaturalLanguage"
        /\ IF ~truthy(req.query.query)
           THEN resp.status = 400
           ELSE IF keys(interpret(variant, req.query.query.s)) = {}
           THEN resp.status = 400
           ELSE /\ resp.status = 200
                /\ resp.body.kind = "interpreted"
                /\ resp.body.interpreted_query.original = req.query.query.s

\* C2: a GET /strings/:value with v path-escaped that comes right after a POST
\* of v answered 201 is answered 200 with the properties of the POST response,
\* for every v, the empty string and values with "%" or "/" included.
C2_GetAfterPostRoundTrip ==
    [][\A v \in Values :
          (req = PostOf(v) /\ resp.status = 201 /\ req' = GetOf(v)) =>
              /\ resp'.status = 200
              /\ resp'.body.kind = "record"
              /\ resp'.body.properties = resp.body.properties]_vars

\* C3: a POST of a value that is stored is answered 409 and leaves the table
\* as it is; a POST of a value that is not stored is answered 201 and adds
\* exactly one row, whose id is the SHA-256 digest of the value.
C3_PostIdempotentIdentity ==
    [][\A v \in Values :
          Answers(PostOf(v)) =>
              IF Stored(store, v)
              THEN resp'.status = 409 /\ store' = store
              ELSE /\ resp'.status = 201
                   /\ \E row \in store' :
                          /\ row \notin store
                          /\ store' = store \cup {row}
                          /\ row.value = v
                          /\ row.id = sha256(v)
                          /\ resp'.body.id = row.id
                          /\ row.created_at = now]_vars

\* C3's case: a POST of a stored value was refused, the row standing as it
\* was written at an earlier instant
C3_Witness ==
    \E v \in Values :
        /\ req = PostOf(v)
        /\ resp.status = 409
        /\ \E row \in store : row.value = v /\ row.created_at < now

\* C4: a DELETE /strings/:value with v path-escaped is answered 204 when v is
\* stored and 404 when it is not; after the 204, v is gone and a GET
\* /strings/:value for v is answered 404.
C4_DeleteThenNotFound ==
    [][\A v \in Values :
          /\ Answers(DeleteOf(v)) =>
                 IF Stored(store, v)
                 THEN resp'.status = 204 /\ ~Stored(store', v)
                 ELSE resp'.status = 404
          /\ (req = DeleteOf(v) /\ resp.status = 204 /\ Answers(GetOf(v))) =>
                 resp'.status = 404]_vars

\* C5: of two POSTs of one value that two processes run at once, neither is
\* answered 500: one is answered 201 and the other 409, and the row is
\* written once.
C5_RaceLoserGetsConflict ==
    /\ \A p \in Procs : pc[p] = "done" => local[p].resp.status # 500
    /\ \A p, q \in Procs :
           (p # q /\ pc[p] = "done" /\ pc[q] = "done"
                 /\ local[p].value = local[q].value
                 /\ local[p].resp.status = 201)
               => local[q].resp.status \in {400, 409, 422}

\* the six rules of the interpreter, read off the lowercased query
Occurs(q, phrase) ==
    \E i \in 1..Len(q) : \E j \in i..Len(q) : SubSeq(q, i, j) = phrase

\* the places where the phrase, a space and a character of the class stand
PlacesOf(q, phrase, class) ==
    {i \in 1..Len(q) :
        /\ i + Len(phrase) + 1 <= Len(q)
        /\ \A k \in 1..Len(phrase) : q[i + k - 1] = phrase[k]
        /\ q[i + Len(phrase)] = " "
        /\ q[i + Len(phrase) + 1] \in class}

First(places) == CHOOSE i \in places : \A j \in places : i <= j

\* the number N written at position i of q
NumberAt(q, i) ==
    LET last == CHOOSE e \in i..Len(q) :
                    /\ \A k \in i..e : q[k] \in DigitChars
                    /\ e = Len(q) \/ q[e + 1] \notin DigitChars
    IN  decimal(SubSeq(q, i, last))

RuleFilters(q) ==
    LET longer == PlacesOf(q, LONGER_THAN, DigitChars)
        shorter == PlacesOf(q, SHORTER_THAN, DigitChars)
        letter == PlacesOf(q, CONTAINING_THE_LETTER,
                           LowerChars \cup UpperChars \cup DigitChars \cup {"_"})
    IN  [is_palindrome |->
             IF Occurs(q, PALINDROME) \/ Occurs(q, PALINDROMIC)
             THEN Bool(TRUE) ELSE Undefined,
         min_length |->
             IF longer # {}
             THEN Num(NumberAt(q, First(longer) + Len(LONGER_THAN) + 1) + 1)
             ELSE Undefined,
         max_length |->
             IF shorter # {}
             THEN Num(NumberAt(q, First(shorter) + Len(SHORTER_THAN) + 1) - 1)
             ELSE Undefined,
         word_count |-> IF Occurs(q, SINGLE_WORD) THEN Num(1) ELSE Undefined,
         contains_character |->
             IF Occurs(q, CONTAINING_THE_FIRST_VOWEL) THEN Str(<<"a">>)
             ELSE IF letter # {}
                  THEN Str(<<q[First(letter) + Len(CONTAINING_THE_LETTER) + 1]>>)
                  ELSE Undefined]

\* C6: the parsed_filters of every query are those the six rules give on the
\* lowercased query, and no other field is set; a query that sets none is
\* answered 400.
C6_ParsedFiltersFollowTheRules ==
    (ret.returned /\ call.fn = "filterByNaturalLanguage" /\ call.query # <<>>) =>
        LET expected == RuleFilters(toLowerCase(call.query))
        IN  IF keys(expected) = {} THEN ret.value.status = 400
            ELSE /\ ret.value.status = 200
                 /\ ret.value.body.interpreted_query.parsed_filters = expected

\* C7: applyFilters keeps a row if and only if every filter that is present
\* holds of it, contains_character being looked up with both sides lowercased.
C7_KeepsIffEveryFilterHolds ==
    (ret.returned /\ call.fn = "applyFilters") =>
        LET f == call.filters
            value == call.row.value
            p == computeProperties(value)
        IN  (ret.value = <<call.row>>) <=>
                /\ f.is_palindrome # Undefined => p.is_palindrome = f.is_palindrome.b
                /\ f.min_length # Undefined => p.length >= f.min_length.n
                /\ f.max_length # Undefined => p.length <= f.max_length.n
                /\ f.word_count # Undefined => p.word_count = f.word_count.n
                /\ f.contains_character # Undefined =>
                       Occurs(toLowerCase(value), toLowerCase(f.contains_character.s))

\* C8: GET /strings with a min_length, max_length or word_count that is no
\* number is answered 200 with no row: data is empty and count is 0.
C8_NonNumericFilterMatchesNothing ==
    \A k \in NumericParams :
        (req.method = "GET" /\ req.path = STRINGS /\ req.query[k] # Undefined
             /\ Number(req.query[k]) = NaN) =>
            /\ resp.status = 200
            /\ resp.body.count = 0
            /\ resp.body.data = <<>>

\* C9: a row leaves the table, or changes, only in the step that answers a
\* DELETE /strings/:value naming the value of that very row.
C9_OnlyItsOwnDeleteRemoves ==
    [][\A row \in store : row \notin store' => Answers(DeleteOf(row.value))]_vars

\* the case folding of C10, on the characters of AnalyzeChars
Fold(c) == IF c = "A" THEN "a" ELSE c

\* C10: computeProperties(s).is_palindrome is true if and only if s, with
\* only its case folded, reads the same from both ends.
C10_PalindromeIffFoldedMirror ==
    (ret.returned /\ call.fn = "computeProperties") =>
        LET s == call.value
        IN  ret.value.is_palindrome <=>
                \A i \in 1..Len(s) : Fold(s[i]) = Fold(s[Len(s) + 1 - i])

\* C10's case: a string that is a palindrome only once its case is folded
C10_Witness ==
    /\ ret.returned
    /\ call.fn = "computeProperties"
    /\ call.value = <<"A", "b", "a">>
    /\ ret.value.is_palindrome

=============================================================================
